---- MODULE Spec2Model ----
(***************************************************************************)
(* Model of the line-of-sight path-following node of Vortex-AUV            *)
(* (src/motion/los_guidance/scripts/los_guidance_backstepping.py):         *)
(* the LOS guidance object, the goal flag, the reference filter and the    *)
(* four callbacks (odometry tick, goal accept, preempt, reconfigure).      *)
(*                                                                         *)
(* Numbers.  Lengths are integers in units of 0.1 m (R = 0.5 m is 5,       *)
(* delta = 0.7 m is 7).  Angles are integers in units of pi/PI.  A         *)
(* distance sqrt(q) is carried as its radicand q, and a path-frame         *)
(* coordinate n/sqrt(q) as the record [n |-> n, q |-> q]; comparisons are  *)
(* made on the squares, so they are exact.  arctan and arctan2 are exact   *)
(* at multiples of pi/4 and map every open octant to its mid angle.        *)
(***************************************************************************)
EXTENDS Integers, Sequences, FiniteSets, TLC

\* ------------------------------------------------------------------ bounds
\* vehicle positions and goal waypoints are the first MaxPts grid points
MaxPts == 3

\* ------------------------------------------------------- program constants
\* math.pi, in angle units
PI == 8
\* the float nan (np.arctan(-0.0 / 0.0)); every comparison with it is false
NaN == 1000
\* LOS.__init__: sphere of acceptance 0.5 m
R0 == 5
\* LOS.__init__: look-ahead distance 1.0 * Lpp = 0.7 m
delta0 == 7

\* the grid points in diagonal order: (0,0), (1,0), (0,1), (2,0), (1,1), ...
PointAt(k) ==
    LET d == CHOOSE i \in 0 .. k :
                 (i * (i + 1)) \div 2 <= k /\ k < ((i + 1) * (i + 2)) \div 2
        j == k - (d * (d + 1)) \div 2
    IN  [x |-> d - j, y |-> j]
Points == { PointAt(k) : k \in 0 .. (MaxPts - 1) }

\* ------------------------------------------------------------ float helpers
IsNaN(a) == a = NaN
Add(a, b) == IF IsNaN(a) \/ IsNaN(b) THEN NaN ELSE a + b
Sub(a, b) == IF IsNaN(a) \/ IsNaN(b) THEN NaN ELSE a - b
Lt(a, b) == ~IsNaN(a) /\ ~IsNaN(b) /\ a < b
Gt(a, b) == ~IsNaN(a) /\ ~IsNaN(b) /\ a > b
Sgn(n) == IF n > 0 THEN 1 ELSE IF n < 0 THEN -1 ELSE 0
Abs(n) == IF n < 0 THEN -n ELSE n

\* np.arctan2(dy, dx) for floats that hold integers, in angle units
Arctan2(dy, dx) ==
    LET ay == Abs(dy)
        ax == Abs(dx)
        a  == IF ay = 0 THEN 0
              ELSE IF ax = 0 THEN PI \div 2
              ELSE IF ay < ax THEN PI \div 8
              ELSE IF ay = ax THEN PI \div 4
              ELSE (3 * PI) \div 8
    IN  IF dx = 0 /\ dy = 0 THEN 0
        ELSE IF dx >= 0 /\ dy >= 0 THEN a
        ELSE IF dx < 0 /\ dy >= 0 THEN PI - a
        ELSE IF dx >= 0 THEN -a
        ELSE -(PI - a)

\* np.arctan(-e / delta) for e = en/sqrt(q): numpy division, so delta = 0
\* gives -+inf (arctan -+pi/2) or, for e = 0, nan; never an exception
ArctanNegDiv(en, q, delta) ==
    IF delta = 0
    THEN IF en = 0 THEN NaN ELSE Sgn(-en) * (PI \div 2)
    ELSE LET sg == Sgn(-en) * Sgn(delta)
             n2 == en * en
             d2 == delta * delta * q
         IN  IF en = 0 THEN 0
             ELSE IF n2 < d2 THEN sg * (PI \div 8)
             ELSE IF n2 = d2 THEN sg * (PI \div 4)
             ELSE sg * ((3 * PI) \div 8)

\* sqrt(q) < R
SqrtLt(q, R) == R > 0 /\ q < R * R

\* --------------------------------------------------------------- the inputs
\* an odometry sample: position, surge speed, yaw from the quaternion
ZUPsi == { <<0, 0, PI>>, <<1, 1, -PI>> }
Msgs == { [x |-> p.x, y |-> p.y, z |-> c[1], u |-> c[2], psi |-> c[3]] :
            p \in Points, c \in ZUPsi }
\* a goal: next waypoint, forward speed, desired depth, sphere of acceptance
Profiles == { <<1, 0, 1>>, <<2, 1, 2>> }
Goals == { [x |-> w.x, y |-> w.y, speed |-> p[1], depth |-> p[2], R |-> p[3]] :
            w \in Points, p \in Profiles }
NoGoal == [x |-> 0, y |-> 0, speed |-> 0, depth |-> 0, R |-> 0]
NoMsg == [x |-> 0, y |-> 0, z |-> 0, u |-> 0, psi |-> 0]
\* what the external control law and depth regulator return in one tick
Ctrls == { [tau |-> <<-1, 1, -1>>, depth |-> 0],
           [tau |-> <<0, -1, 1>>, depth |-> 1],
           [tau |-> <<1, 1, 1>>, depth |-> 0] }
\* look-ahead distances a reconfigure request carries
Deltas == { 0, delta0 }

VARIABLES
    flag,             \* LosPathFollowing.flag
    los,              \* the LOS object's attributes
    psi,              \* LosPathFollowing.psi
    psi_ref,          \* LosPathFollowing.psi_ref
    reference_model,  \* LosPathFollowing.reference_model (the filter)
    result,           \* last result the action server was given for the goal
    nresults,         \* result records emitted since the goal was accepted
                      \* (0, 1, or 2 for more than one)
    pub,              \* records emitted by the latest step, in order
    err,              \* exception that ended the latest handler, or "none"
    ev,               \* the latest handler and its input
    pcT,              \* where the odometry subscriber's thread is in callback
    pcA               \* where the action server's thread is in goalCB

vars == << flag, los, psi, psi_ref, reference_model, result, nresults, pub, err,
           ev, pcT, pcA >>

\* -------------------------------------------------------- reference filter
\* ReferenceModel(np.array((u, psi)), h): a filter started at (u, psi)
ReferenceModel(u, p) == [u |-> u, psi |-> p]

\* one filter step moves a state half of the way to its command
Toward(a, b) ==
    IF IsNaN(a) \/ IsNaN(b) THEN NaN
    ELSE IF b >= a THEN a + ((b - a + 1) \div 2)
    ELSE a - ((a - b + 1) \div 2)

\* discreteTustinMSD(np.array((speed, heading))): the new filter state; the
\* output x_d carries u_d = .u and psi_d = .psi
discreteTustinMSD(rm, speed, heading) ==
    [u |-> Toward(rm.u, speed), psi |-> Toward(rm.psi, heading)]

\* ------------------------------------------------------------------ LOS
\* LOS.__init__ (psi, alpha, s, e, chi_r, chi_d are not attributes yet:
\* has_psi tells whether LOS.psi exists, the others are never read before
\* lookaheadBasedSteering has written them)
LOSInit ==
    [ x |-> 0, y |-> 0, z |-> 0, u |-> 0,
      psi |-> 0, has_psi |-> FALSE,
      x_k |-> 0, y_k |-> 0, x_kp1 |-> 0, y_kp1 |-> 0,
      z_d |-> 0, speed |-> 0, R |-> R0, delta |-> delta0,
      x_delta |-> 0, y_delta |-> 0, alpha |-> 0,
      s |-> [n |-> 0, q |-> 1], e |-> [n |-> 0, q |-> 1],
      chi_r |-> 0, chi_d |-> 0 ]

\* mutant of updateState: the previous waypoint follows the vehicle
updateState_MovesSegment(l, msg) ==
    [l EXCEPT !.x = msg.x, !.y = msg.y, !.z = msg.z, !.u = msg.u,
              !.psi = msg.psi, !.has_psi = TRUE,
              !.x_k = msg.x, !.y_k = msg.y]

\* LOS.updateState (u_dot, v, w, r and t are written too; only the external
\* control law and depth regulator read them, so they are not carried)
updateState(l, msg) ==
    [l EXCEPT !.x = msg.x, !.y = msg.y, !.z = msg.z, !.u = msg.u,
              !.psi = msg.psi, !.has_psi = TRUE]

\* LOS.distance: the radicand of the 2D distance to the next waypoint
distance(l) ==
    (l.x_kp1 - l.x) * (l.x_kp1 - l.x) + (l.y_kp1 - l.y) * (l.y_kp1 - l.y)

\* mutant of sphereOfAcceptance: the boundary counts as arrived
sphereOfAcceptance_Inclusive(l) == l.R > 0 /\ distance(l) <= l.R * l.R

\* LOS.sphereOfAcceptance
sphereOfAcceptance(l) == SqrtLt(distance(l), l.R)

\* mutant of getEpsilonVector: the forward rotation R(alpha), not its
\* transpose
getEpsilonVector_Forward(l) ==
    LET deg == l.x_delta = 0 /\ l.y_delta = 0
        cx  == IF deg THEN 1 ELSE l.x_delta
        cy  == IF deg THEN 0 ELSE l.y_delta
        q   == cx * cx + cy * cy
        px  == l.x - l.x_k
        py  == l.y - l.y_k
    IN  << [n |-> cx * px - cy * py, q |-> q],
           [n |-> cy * px + cx * py, q |-> q] >>

\* LOS.getEpsilonVector: R(alpha)^T (p - p_k), with cos alpha = cx/sqrt(q)
\* and sin alpha = cy/sqrt(q) for alpha = arctan2(y_delta, x_delta)
getEpsilonVector(l) ==
    LET deg == l.x_delta = 0 /\ l.y_delta = 0
        cx  == IF deg THEN 1 ELSE l.x_delta
        cy  == IF deg THEN 0 ELSE l.y_delta
        q   == cx * cx + cy * cy
        px  == l.x - l.x_k
        py  == l.y - l.y_k
    IN  << [n |-> cx * px + cy * py, q |-> q],
           [n |-> (-cy) * px + cx * py, q |-> q] >>

\* LOS.lookaheadBasedSteering
lookaheadBasedSteering(l) ==
    LET l1 == [l EXCEPT !.y_delta = l.y_kp1 - l.y_k,
                        !.x_delta = l.x_kp1 - l.x_k]
        l2 == [l1 EXCEPT !.alpha = Arctan2(l1.y_delta, l1.x_delta)]
        epsilon == getEpsilonVector(l2)
        l3 == [l2 EXCEPT !.s = epsilon[1], !.e = epsilon[2]]
        l4 == [l3 EXCEPT !.chi_r = ArctanNegDiv(l3.e.n, l3.e.q, l3.delta)]
    IN  [l4 EXCEPT !.chi_d = Add(l4.alpha, l4.chi_r)]

\* ------------------------------------------------------ LosPathFollowing
\* the node's state as one record, so that handlers compose
St ==
    [ flag |-> flag, los |-> los, psi |-> psi, psi_ref |-> psi_ref,
      reference_model |-> reference_model, result |-> result,
      nresults |-> nresults, pub |-> pub, err |-> err ]

Commit(s) ==
    /\ flag' = s.flag
    /\ los' = s.los
    /\ psi' = s.psi
    /\ psi_ref' = s.psi_ref
    /\ reference_model' = s.reference_model
    /\ result' = s.result
    /\ nresults' = s.nresults
    /\ pub' = s.pub
    /\ err' = s.err

\* a handler starts: nothing emitted, nothing raised
Begin(s) == [s EXCEPT !.pub = << >>, !.err = "none"]

Emit(s, rec) == [s EXCEPT !.pub = Append(s.pub, rec)]

\* result records of one goal are counted as none, one, more than one
Count(n) == IF n < 2 THEN n + 1 ELSE 2

\* action_server.set_succeeded / set_preempted.  The action server is a
\* library outside the node: the model records the calls the node makes on it
\* (publish_feedback, set_succeeded, set_preempted) as the records emitted,
\* and takes what is_preempt_requested() returns as an input.
SetResult(s, r) ==
    Emit([s EXCEPT !.result = r, !.nresults = Count(s.nresults)],
         [k |-> "result", r |-> r])

\* mutant of fixHeadingWrapping: psi_ref goes to the filter unshifted
fixHeadingWrapping_NoShift(s) ==
    LET raw  == discreteTustinMSD(s.reference_model, s.los.speed, s.psi_ref)
        e2   == Sub(s.psi, raw.psi)
        pd   == IF Gt(e2, PI) THEN Sub(raw.psi, 2 * PI)
                ELSE IF Lt(e2, -PI) THEN Add(raw.psi, 2 * PI)
                ELSE raw.psi
        rm   == IF Gt(e2, PI) \/ Lt(e2, -PI)
                THEN discreteTustinMSD(ReferenceModel(s.los.u, s.los.psi),
                                       s.los.speed, pd)
                ELSE raw
    IN  [s EXCEPT !.reference_model = rm]

\* mutant of fixHeadingWrapping: the two shifts of psi_ref exchanged
fixHeadingWrapping_Exchanged(s) ==
    LET e1   == Sub(s.psi, s.psi_ref)
        ref  == IF Lt(e1, -PI) THEN Add(s.psi_ref, 2 * PI)
                ELSE IF Gt(e1, PI) THEN Sub(s.psi_ref, 2 * PI)
                ELSE s.psi_ref
        raw  == discreteTustinMSD(s.reference_model, s.los.speed, ref)
        e2   == Sub(s.psi, raw.psi)
        pd   == IF Gt(e2, PI) THEN Sub(raw.psi, 2 * PI)
                ELSE IF Lt(e2, -PI) THEN Add(raw.psi, 2 * PI)
                ELSE raw.psi
        rm   == IF Gt(e2, PI) \/ Lt(e2, -PI)
                THEN discreteTustinMSD(ReferenceModel(s.los.u, s.los.psi),
                                       s.los.speed, pd)
                ELSE raw
    IN  [s EXCEPT !.psi_ref = ref, !.reference_model = rm]

\* LosPathFollowing.fixHeadingWrapping; x_d is the filter's state on return
fixHeadingWrapping(s) ==
    LET e1   == Sub(s.psi, s.psi_ref)
        ref  == IF Lt(e1, -PI) THEN Sub(s.psi_ref, 2 * PI)
                ELSE IF Gt(e1, PI) THEN Add(s.psi_ref, 2 * PI)
                ELSE s.psi_ref
        raw  == discreteTustinMSD(s.reference_model, s.los.speed, ref)
        e2   == Sub(s.psi, raw.psi)
        pd   == IF Gt(e2, PI) THEN Sub(raw.psi, 2 * PI)
                ELSE IF Lt(e2, -PI) THEN Add(raw.psi, 2 * PI)
                ELSE raw.psi
        rm   == IF Gt(e2, PI) \/ Lt(e2, -PI)
                THEN discreteTustinMSD(ReferenceModel(s.los.u, s.los.psi),
                                       s.los.speed, pd)
                ELSE raw
    IN  [s EXCEPT !.psi_ref = ref, !.reference_model = rm]

\* mutant of cbUpdate: psi_ref keeps the value the last tick left
cbUpdate_KeepsRef(s, msg) ==
    LET l == lookaheadBasedSteering(updateState(s.los, msg))
    IN  [s EXCEPT !.psi = msg.psi, !.los = l]

\* callback, lines 353-362: tracker update and desired heading
cbUpdate(s, msg) ==
    LET l == lookaheadBasedSteering(updateState(s.los, msg))
    IN  [s EXCEPT !.psi = msg.psi, !.los = l, !.psi_ref = l.chi_d]

\* callback, lines 373-391: shaping and the desired (shaped) record
cbDesired(s) ==
    LET a == fixHeadingWrapping(s)
    IN  Emit(a, [k |-> "desired", psi_d |-> a.reference_model.psi,
                 u_d |-> a.reference_model.u, z |-> a.los.z])

\* mutant of cbThrust: the surge force goes out as the control law gave it
cbThrust_Unclamped(s, ctrl) ==
    Emit(s, [k |-> "thrust", fx |-> ctrl.tau[1],
             fy |-> ctrl.tau[2], fz |-> ctrl.depth, mz |-> ctrl.tau[3]])

\* callback, lines 393-407: the thrust command from the control law's tau
cbThrust(s, ctrl) ==
    Emit(s, [k |-> "thrust",
             fx |-> IF ctrl.tau[1] > 0 THEN ctrl.tau[1] ELSE 0,
             fy |-> ctrl.tau[2], fz |-> ctrl.depth, mz |-> ctrl.tau[3]])

\* statusActionGoal, lines 420-422
sagFeedback(s) == Emit(s, [k |-> "feedback", d |-> distance(s.los)])

\* statusActionGoal, lines 424-428
sagSucceeded(s) ==
    IF sphereOfAcceptance(s.los)
    THEN [SetResult(s, "succeeded") EXCEPT !.flag = FALSE]
    ELSE s

\* LosPathFollowing.statusActionGoal
statusActionGoal(s) == sagSucceeded(sagFeedback(s))

\* mutant of callback: the Active pipeline runs whatever the flag
callback_Ungated(s, msg, ctrl) ==
    statusActionGoal(cbThrust(cbDesired(cbUpdate(s, msg)), ctrl))

\* mutant of callback: feedback and arrival come before the thrust command
callback_StatusFirst(s, msg, ctrl) ==
    LET a == cbUpdate(s, msg)
    IN  IF a.flag
        THEN cbThrust(statusActionGoal(cbDesired(a)), ctrl)
        ELSE a

\* LosPathFollowing.callback
callback(s, msg, ctrl) ==
    LET a == cbUpdate(s, msg)
    IN  IF a.flag
        THEN statusActionGoal(cbThrust(cbDesired(a), ctrl))
        ELSE a

\* LosPathFollowing.preemptCB; req is what is_preempt_requested() returns
preemptCB(s, req) ==
    IF req
    THEN [SetResult(s, "preempted") EXCEPT !.flag = FALSE]
    ELSE s

\* goalCB, line 446
gFlag(s) == [s EXCEPT !.flag = TRUE]

\* goalCB, line 447: the pending goal becomes the server's current goal
gAccept(s) == [s EXCEPT !.result = "none", !.nresults = 0]

\* goalCB, lines 450-453
gWaypoints(s, g) ==
    [s EXCEPT !.los.x_k = s.los.x, !.los.y_k = s.los.y,
              !.los.x_kp1 = g.x, !.los.y_kp1 = g.y]

\* goalCB, lines 456-462
gParams(s, g) ==
    [s EXCEPT !.los.speed = g.speed, !.los.z_d = g.depth, !.los.R = g.R]

\* goalCB, line 464: reading LOS.psi before any sample raises AttributeError
gFilter(s) ==
    IF s.los.has_psi
    THEN [s EXCEPT !.reference_model = ReferenceModel(s.los.u, s.los.psi)]
    ELSE [s EXCEPT !.err = "AttributeError"]

\* LosPathFollowing.goalCB
goalCB(s, g) == gFilter(gParams(gWaypoints(gAccept(gFlag(s)), g), g))


\* mutant of config_callback: the update also ends the goal and restarts
\* the filter
config_callback_Resets(s, delta) ==
    [s EXCEPT !.los.delta = delta, !.flag = FALSE,
              !.reference_model = ReferenceModel(s.los.u, s.los.psi)]

\* LosPathFollowing.config_callback
config_callback(s, delta) == [s EXCEPT !.los.delta = delta]

\* goalCB, lines 447-464
gRest(s, g) == gFilter(gParams(gWaypoints(gAccept(s), g), g))

\* callback, lines 365-407 for a tick that found the flag set
cbPublish(s, ctrl) == cbThrust(cbDesired(s), ctrl)

\* ------------------------------------------------- serialized dispatch
\* every handler runs from start to end before the next event is taken
Event(h, g, req, msg) == [h |-> h, goal |-> g, req |-> req, msg |-> msg]

\* LosPathFollowing.__init__
Init ==
    /\ flag = FALSE
    /\ los = LOSInit
    /\ psi = 0
    /\ psi_ref = 0
    /\ reference_model = ReferenceModel(0, 0)
    /\ result = "none"
    /\ nresults = 0
    /\ pub = << >>
    /\ err = "none"
    /\ ev = Event("init", NoGoal, FALSE, NoMsg)
    /\ pcT = "idle"
    /\ pcA = "idle"

\* the control law is only called in an Active tick
Tick ==
    /\ pcT = "idle"
    /\ pcA = "idle"
    /\ \E msg \in Msgs :
        \E ctrl \in IF flag THEN Ctrls ELSE { CHOOSE c \in Ctrls : TRUE } :
            /\ Commit(callback(Begin(St), msg, ctrl))
            /\ ev' = Event("tick", NoGoal, FALSE, msg)
    /\ UNCHANGED << pcT, pcA >>

Goal ==
    /\ pcT = "idle"
    /\ pcA = "idle"
    /\ \E g \in Goals :
        /\ Commit(goalCB(Begin(St), g))
        /\ ev' = Event("goal", g, FALSE, NoMsg)
    /\ UNCHANGED << pcT, pcA >>

Preempt ==
    /\ pcT = "idle"
    /\ pcA = "idle"
    /\ \E req \in BOOLEAN :
        /\ Commit(preemptCB(Begin(St), req))
        /\ ev' = Event("preempt", NoGoal, req, NoMsg)
    /\ UNCHANGED << pcT, pcA >>

Config ==
    /\ pcT = "idle"
    /\ pcA = "idle"
    /\ \E delta \in Deltas :
        /\ Commit(config_callback(Begin(St), delta))
        /\ ev' = Event("config", NoGoal, FALSE, NoMsg)
    /\ UNCHANGED << pcT, pcA >>

Next == Tick \/ Goal \/ Preempt \/ Config

Spec == Init /\ [][Next]_vars

\* ------------------------------------------------- threaded dispatch
\* rospy runs the odometry callback on the subscriber's thread and the goal
\* and preempt callbacks on the action server's; the node takes no lock, so
\* the steps of callback interleave with those of goalCB and with preemptCB
\* and config_callback.  goalCB and preemptCB exclude each other.

\* callback, lines 353-365: update, desired heading, test of the flag
TBegin ==
    /\ pcT = "idle"
    /\ \E msg \in Msgs :
        LET a == cbUpdate(Begin(St), msg)
        IN  /\ Commit(a)
            /\ pcT' = IF a.flag THEN "publish" ELSE "idle"
            /\ ev' = Event("tick", NoGoal, FALSE, msg)
    /\ UNCHANGED pcA

\* callback, lines 373-407
TPublish ==
    /\ pcT = "publish"
    /\ \E ctrl \in Ctrls : Commit(cbPublish(Begin(St), ctrl))
    /\ pcT' = "status"
    /\ ev' = Event("tick", NoGoal, FALSE, NoMsg)
    /\ UNCHANGED pcA

\* callback, line 411: statusActionGoal
TStatus ==
    /\ pcT = "status"
    /\ Commit(statusActionGoal(Begin(St)))
    /\ pcT' = "idle"
    /\ ev' = Event("tick", NoGoal, FALSE, NoMsg)
    /\ UNCHANGED pcA

\* goalCB, line 446
GBegin ==
    /\ pcA = "idle"
    /\ Commit(gFlag(Begin(St)))
    /\ pcA' = "accept"
    /\ ev' = Event("goal", NoGoal, FALSE, NoMsg)
    /\ UNCHANGED pcT

\* goalCB, lines 447-464
GRest ==
    /\ pcA = "accept"
    /\ \E g \in Goals :
        /\ Commit(gRest(Begin(St), g))
        /\ ev' = Event("goal", g, FALSE, NoMsg)
    /\ pcA' = "idle"
    /\ UNCHANGED pcT

PreemptT ==
    /\ pcA = "idle"
    /\ \E req \in BOOLEAN :
        /\ Commit(preemptCB(Begin(St), req))
        /\ ev' = Event("preempt", NoGoal, req, NoMsg)
    /\ UNCHANGED << pcT, pcA >>

ConfigT ==
    /\ \E delta \in Deltas :
        /\ Commit(config_callback(Begin(St), delta))
        /\ ev' = Event("config", NoGoal, FALSE, NoMsg)
    /\ UNCHANGED << pcT, pcA >>

NextThreads ==
    TBegin \/ TPublish \/ TStatus \/ GBegin \/ GRest \/ PreemptT \/ ConfigT

SpecThreads == Init /\ [][NextThreads]_vars

\* ---------------------------------------------------------------- claims
\* the records of kind k in a sequence of emitted records
OfKind(seq, k) == { i \in 1 .. Len(seq) : seq[i].k = k }
\* the records a tick's Active pipeline emits
TickOutputs(seq) ==
    { i \in 1 .. Len(seq) :
        \/ seq[i].k \in { "desired", "thrust", "feedback" }
        \/ (seq[i].k = "result" /\ seq[i].r = "succeeded") }
Preempted(seq) ==
    { i \in OfKind(seq, "result") : seq[i].r = "preempted" }
Succeeded(seq) ==
    { i \in OfKind(seq, "result") : seq[i].r = "succeeded" }

\* C1: a goal-accept whose waypoint differs from the vehicle's position,
\* handled in any goal state, completes and leaves the flag set, the segment
\* running from the position held before the handler to the goal waypoint,
\* speed, depth and R from the payload, the filter started at the vehicle's
\* (u, psi), and no Preempted result emitted.
C1_GoalAcceptStartsFresh ==
    [][ (ev'.h = "goal" /\ ~(ev'.goal.x = los.x /\ ev'.goal.y = los.y))
        => /\ flag'
           /\ err' = "none"
           /\ los'.x_k = los.x /\ los'.y_k = los.y
           /\ los'.x_kp1 = ev'.goal.x /\ los'.y_kp1 = ev'.goal.y
           /\ los'.speed = ev'.goal.speed
           /\ los'.z_d = ev'.goal.depth
           /\ los'.R = ev'.goal.R
           /\ reference_model' = ReferenceModel(los.u, los.psi)
           /\ Preempted(pub') = {} ]_vars

\* C2: a goal-accept whose waypoint equals the position of the latest sample
\* is rejected: flag, segment, parameters and filter stay as they were.
C2_DegenerateGoalRejected ==
    [][ (ev'.h = "goal" /\ los.has_psi
            /\ ev'.goal.x = los.x /\ ev'.goal.y = los.y)
        => /\ flag' = flag
           /\ los' = los
           /\ reference_model' = reference_model ]_vars

\* C3: a tick handled while the flag is set reports success and clears the
\* flag exactly when the 2D distance from the sample's (x, y) to the next
\* waypoint is strictly below R; at distance R or more the flag stays set
\* and no result is emitted.  Only x, y, the next waypoint and R enter.
C3_ArrivalIffInsideSphere ==
    [][ (ev'.h = "tick" /\ flag)
        => LET dx == los.x_kp1 - ev'.msg.x
               dy == los.y_kp1 - ev'.msg.y
               inside == los.R > 0 /\ dx * dx + dy * dy < los.R * los.R
           IN  /\ inside => /\ ~flag'
                            /\ result' = "succeeded"
                            /\ Cardinality(Succeeded(pub')) = 1
               /\ ~inside => /\ flag'
                             /\ OfKind(pub', "result") = {} ]_vars

\* C3 witness: an Active tick at distance exactly R that stayed Active
C3_WitnessOnBoundary ==
    /\ ev.h = "tick"
    /\ flag
    /\ OfKind(pub, "feedback") # {}
    /\ distance(los) = los.R * los.R

\* C4: once a preempt has been handled for the goal and until the next goal
\* is accepted, no step emits a success result, a feedback record, a desired
\* (shaped) record or a thrust command.
C4_NothingEmittedAfterPreempt ==
    [][ (result = "preempted" /\ pcA = "idle") => TickOutputs(pub') = {} ]_vars

\* C5: an accepted goal has one result record; in particular a success
\* result is never the second result record of an accepted goal.
C5_NoSecondResult == ~(pcA = "idle" /\ nresults = 2 /\ result = "succeeded")

\* C6: a tick handled while the flag is set emits exactly one feedback
\* record, carrying the distance from the sample to the next waypoint; a tick
\* handled while it is not set emits nothing, leaves it unset and the result
\* count as it was, and stores the sample in the tracked state.
C6_OutputsGatedOnFlag ==
    [][ ev'.h = "tick"
        => LET dx == los.x_kp1 - ev'.msg.x
               dy == los.y_kp1 - ev'.msg.y
           IN  /\ flag => /\ Cardinality(OfKind(pub', "feedback")) = 1
                          /\ \A i \in OfKind(pub', "feedback") :
                                 pub'[i].d = dx * dx + dy * dy
               /\ ~flag => /\ pub' = << >>
                           /\ ~flag'
                           /\ nresults' = nresults /\ result' = result
                           /\ los'.x = ev'.msg.x /\ los'.y = ev'.msg.y
                           /\ los'.z = ev'.msg.z /\ los'.u = ev'.msg.u
                           /\ los'.psi = ev'.msg.psi /\ los'.has_psi ]_vars

\* C6 witness: a tick handled after the goal succeeded, with nothing emitted
C6_WitnessIdleTick ==
    /\ ev.h = "tick"
    /\ ~flag
    /\ result = "succeeded"
    /\ pub = << >>
    /\ los.x = ev.msg.x /\ los.y = ev.msg.y

\* C7: a preempt request handled while the flag is not set changes nothing
\* and emits no result record.
C7_PreemptWhileIdleIsNoOp ==
    [][ (ev'.h = "preempt" /\ ev'.req /\ ~flag)
        => /\ ~flag'
           /\ los' = los
           /\ reference_model' = reference_model
           /\ OfKind(pub', "result") = {} ]_vars

\* C8: no handler ends in an exception.
C8_NoHandlerRaises == err = "none"

\* C9: a tick handled while Active with delta = 0 performs no guidance
\* computation: desired heading, cross-track and along-track values, filter
\* and flag stay as they were and no desired record or thrust command goes out.
C9_NoGuidanceWithZeroDelta ==
    [][ (ev'.h = "tick" /\ flag /\ los.delta = 0)
        => /\ los'.chi_d = los.chi_d
           /\ los'.s = los.s /\ los'.e = los.e
           /\ reference_model' = reference_model
           /\ flag' = flag
           /\ OfKind(pub', "desired") = {}
           /\ OfKind(pub', "thrust") = {} ]_vars

\* C10: callback never runs its Active pipeline while goalCB has set the
\* flag for the new goal but not yet its waypoint, R and filter.
C10_TickNeverInsideGoalAccept ==
    ~(pcA = "accept" /\ pcT \in { "publish", "status" })

\* C11: every thrust command emitted has a surge force >= 0 and is the image
\* of what the control law returned: surge 0 when the law's surge is negative
\* or zero, the law's surge when it is positive, sway force and yaw moment as
\* the law gave them, whatever their sign.
C11_SurgeNeverNegative ==
    \A i \in OfKind(pub, "thrust") :
        /\ pub[i].fx >= 0
        /\ \E c \in Ctrls :
            /\ (c.tau[1] <= 0 => pub[i].fx = 0)
            /\ (c.tau[1] > 0 => pub[i].fx = c.tau[1])
            /\ pub[i].fy = c.tau[2]
            /\ pub[i].mz = c.tau[3]

\* C11 witness: a thrust command for a negative surge, positive sway and
\* negative yaw moment: surge zeroed, the other two as given
C11_WitnessNegativeSurge ==
    /\ ev.h = "tick"
    /\ \E i \in OfKind(pub, "thrust") :
           pub[i].fx = 0 /\ pub[i].fy = 1 /\ pub[i].mz = -1

\* C12: a configuration update changes the look-ahead distance and nothing
\* else: flag, results, segment, R, speed, depth, tracked state and filter
\* stay as they were and nothing is emitted; the next tick keeps the
\* distance and computes its correction term with it.
C12_ConfigChangesOnlyDelta ==
    [][ /\ ev'.h = "config"
           => /\ flag' = flag
              /\ result' = result /\ nresults' = nresults
              /\ los' = [los EXCEPT !.delta = los'.delta]
              /\ los'.delta \in Deltas
              /\ psi' = psi /\ psi_ref' = psi_ref
              /\ reference_model' = reference_model
              /\ pub' = << >> /\ err' = "none"
        /\ ev'.h = "tick"
           => /\ los'.delta = los.delta
              /\ los'.chi_r = ArctanNegDiv(los'.e.n, los'.e.q, los.delta) ]_vars

\* C12 witness: a tick of a goal that is still Active after an update that
\* changed the look-ahead distance, steering with the new distance
C12_WitnessActiveAfterConfig ==
    /\ ev.h = "tick"
    /\ flag
    /\ los.delta # delta0
    /\ los.e.n # 0
    /\ los.chi_r = ArctanNegDiv(los.e.n, los.e.q, los.delta)
    /\ OfKind(pub, "thrust") # {}

\* C13 as stated: in an Active tick, with e = psi - psi_ref for the measured
\* heading and the desired heading just computed, psi_ref is increased by
\* 2 pi if e < -pi, decreased by 2 pi if e > pi, and left as it is otherwise.
C13_Step1AsStated ==
    [][ (ev'.h = "tick" /\ flag)
        => LET ref == los'.chi_d
               e   == Sub(ev'.msg.psi, ref)
           IN  psi_ref' = IF Lt(e, -PI) THEN Add(ref, 2 * PI)
                          ELSE IF Gt(e, PI) THEN Sub(ref, 2 * PI)
                          ELSE ref ]_vars

\* C13 amended: in an Active tick, with e = psi - psi_ref, psi_ref is
\* decreased by 2 pi if e < -pi, increased by 2 pi if e > pi, and left as it
\* is otherwise (also when it is not a number); never more than one shift.
C13_Step1ShiftsTowardPsi ==
    [][ (ev'.h = "tick" /\ flag)
        => LET ref == los'.chi_d
               e   == Sub(ev'.msg.psi, ref)
           IN  /\ Lt(e, -PI) => psi_ref' = Sub(ref, 2 * PI)
               /\ Gt(e, PI) => psi_ref' = Add(ref, 2 * PI)
               /\ ~Lt(e, -PI) /\ ~Gt(e, PI) => psi_ref' = ref
               /\ psi_ref' \in { ref, Sub(ref, 2 * PI), Add(ref, 2 * PI) } ]_vars

\* C13 witness: an Active tick whose desired heading was more than pi above
\* the measured heading and went down by 2 pi
C13_WitnessShiftedDown ==
    /\ ev.h = "tick"
    /\ OfKind(pub, "desired") # {}
    /\ Lt(Sub(psi, los.chi_d), -PI)
    /\ psi_ref = Sub(los.chi_d, 2 * PI)

\* C14 as stated: when an Active tick on a segment of two distinct waypoints
\* (the previous one a sampled position, not the constructor's) has left |psi - psi_ref| <= pi and the next tick brings the same sample,
\* that tick starts its correction from the
\* psi_ref carried over and applies no further shift: psi_ref stays.
C14_AdjustedRefCarriedOver ==
    [][ (ev.h = "tick" /\ flag /\ ev'.h = "tick" /\ ev'.msg = ev.msg
            /\ (los.x_k # los.x_kp1 \/ los.y_k # los.y_kp1)
            /\ (los.x_k # LOSInit.x \/ los.y_k # LOSInit.y)
            /\ ~IsNaN(psi_ref) /\ Abs(psi - psi_ref) <= PI)
        => /\ los'.chi_d = psi_ref
           /\ psi_ref' = psi_ref ]_vars

\* C14 amended: the correction applied again to the psi_ref it has adjusted,
\* with the same psi, leaves psi_ref as it is.  A tick does not carry psi_ref
\* over: it recomputes it from the LOS law and shifts the recomputed value,
\* so a repeated tick with the same sample ends with the same psi_ref, 0 or
\* 2 pi away from the recomputed desired heading.
C14_RepeatedTickSameRef ==
    [][ (ev.h = "tick" /\ flag /\ ev'.h = "tick" /\ ev'.msg = ev.msg)
        => /\ psi_ref' = psi_ref
           /\ fixHeadingWrapping(St).psi_ref = psi_ref
           /\ \/ psi_ref' = los'.chi_d
              \/ psi_ref' = Sub(los'.chi_d, 2 * PI)
              \/ psi_ref' = Add(los'.chi_d, 2 * PI) ]_vars

\* C14 witness: the filter has settled on a psi_ref that ticks with the same
\* heading have shifted by 2 pi each time
C14_WitnessShiftRepeated ==
    /\ ev.h = "tick"
    /\ flag
    /\ ~IsNaN(psi_ref)
    /\ psi_ref # los.chi_d
    /\ Abs(psi - psi_ref) >= 3
    /\ reference_model.psi = psi_ref

C16_FeedbackBeforeThrust ==
    ev.h = "tick"
    => \A i \in OfKind(pub, "thrust") :
           \A j \in OfKind(pub, "feedback") \cup Succeeded(pub) : j < i

\* C16 amended: an Active tick updates the tracked state, recomputes the
\* desired heading from it, shapes it and emits the desired record, then
\* emits the thrust command, and only after that emits the feedback and
\* evaluates arrival: the records go out in the order desired, thrust,
\* feedback, success.
C16_ThrustBeforeFeedback ==
    (ev.h = "tick" /\ pub # << >>)
    => /\ Len(pub) \in { 3, 4 }
       /\ los.x = ev.msg.x /\ los.y = ev.msg.y /\ psi = ev.msg.psi
       /\ lookaheadBasedSteering(los) = los
       /\ psi_ref \in { los.chi_d, Sub(los.chi_d, 2 * PI),
                         Add(los.chi_d, 2 * PI) }
       /\ pub[1].k = "desired"
       /\ pub[1].psi_d = reference_model.psi
       /\ pub[2].k = "thrust"
       /\ pub[3].k = "feedback"
       /\ pub[3].d = distance(los)
       /\ Len(pub) = 4 => (pub[4].k = "result" /\ pub[4].r = "succeeded")

\* C16 witness: the tick in which the vehicle arrived: thrust command
\* second, success result last
C16_WitnessArrivalTick ==
    /\ ev.h = "tick"
    /\ Len(pub) = 4
    /\ pub[2].k = "thrust"
    /\ pub[4].k = "result"
    /\ ~flag

\* C17: only a goal-accept writes the waypoint segment: a tick, a preempt
\* and a configuration update leave the previous and the next waypoint as
\* they were, and a goal-accept sets them to the position held and to the
\* goal's waypoint.
C17_SegmentSetOnlyByGoal ==
    [][ /\ ev'.h # "goal"
           => /\ los'.x_k = los.x_k /\ los'.y_k = los.y_k
              /\ los'.x_kp1 = los.x_kp1 /\ los'.y_kp1 = los.y_kp1
        /\ ev'.h = "goal"
           => /\ los'.x_k = los.x /\ los'.y_k = los.y
              /\ los'.x_kp1 = ev'.goal.x /\ los'.y_kp1 = ev'.goal.y ]_vars

\* C17 witness: an Active tick that moved the vehicle off the previous
\* waypoint and onto neither end of the segment
C17_WitnessVehicleMoved ==
    /\ ev.h = "tick"
    /\ flag
    /\ OfKind(pub, "feedback") # {}
    /\ (los.x # los.x_k \/ los.y # los.y_k)
    /\ (los.x # los.x_kp1 \/ los.y # los.y_kp1)
    /\ (los.x_k # los.x_kp1 \/ los.y_k # los.y_kp1)

\* the path-frame coordinate c (n/sqrt(q)) has the value m/sqrt(r)
SameValue(c, m, r) == Sgn(c.n) = Sgn(m) /\ c.n * c.n * r = m * m * c.q

\* C18: after a tick, with (dx, dy) the position minus the previous waypoint
\* and (sx, sy) the segment: alpha = atan2(sy, sx); s = cos alpha dx + sin
\* alpha dy and e = -sin alpha dx + cos alpha dy; chi_d = alpha + chi_r with
\* no normalisation.  On the four axis-aligned directions s and e are the
\* signed offsets along and across the segment.  For a look-ahead distance
\* in its domain (delta > 0) chi_r is 0 when e = 0 and otherwise lies
\* strictly between 0 and -+pi/2 with the sign opposite to e.
C18_LosLaw ==
    ev.h = "tick"
    => LET dx == los.x - los.x_k
           dy == los.y - los.y_k
           sx == los.x_kp1 - los.x_k
           sy == los.y_kp1 - los.y_k
       IN  /\ los.alpha = Arctan2(sy, sx)
           /\ los.alpha >= -PI /\ los.alpha <= PI
           /\ (sx # 0 \/ sy # 0)
              => /\ SameValue(los.s, sx * dx + sy * dy, sx * sx + sy * sy)
                 /\ SameValue(los.e, sx * dy - sy * dx, sx * sx + sy * sy)
           /\ (sy = 0 /\ sx > 0)
              => /\ los.alpha = 0
                 /\ SameValue(los.s, dx, 1) /\ SameValue(los.e, dy, 1)
           /\ (sx = 0 /\ sy > 0)
              => /\ 2 * los.alpha = PI
                 /\ SameValue(los.s, dy, 1) /\ SameValue(los.e, -dx, 1)
           /\ (sy = 0 /\ sx < 0)
              => /\ los.alpha = PI
                 /\ SameValue(los.s, -dx, 1) /\ SameValue(los.e, -dy, 1)
           /\ (sx = 0 /\ sy < 0)
              => /\ 2 * los.alpha = -PI
                 /\ SameValue(los.s, -dy, 1) /\ SameValue(los.e, dx, 1)
           /\ los.chi_d = Add(los.alpha, los.chi_r)
           /\ los.delta > 0
              => /\ Sgn(los.chi_r) = -Sgn(los.e.n)
                 /\ 2 * Abs(los.chi_r) < PI

\* C18 witness: previous waypoint (0,0), next waypoint on the x axis,
\* vehicle at (x, 1): s = x, e = 1, a negative correction and chi_d = chi_r
C18_WitnessAlongXAxis ==
    /\ ev.h = "tick"
    /\ los.x_k = 0 /\ los.y_k = 0 /\ los.x_kp1 > 0 /\ los.y_kp1 = 0
    /\ los.y = 1
    /\ los.delta = delta0
    /\ SameValue(los.s, los.x, 1)
    /\ SameValue(los.e, 1, 1)
    /\ los.chi_r < 0
    /\ los.chi_d = los.chi_r

\* C19: in an Active tick whose correction term is a number, the measured
\* heading and the segment's angle lie in [-pi, pi], the correction term in
\* [-pi/2, pi/2], and the psi_ref that step 1 leaves and the filter is fed
\* is at most pi from the measured heading.
C19_RefWithinPiOfPsi ==
    (ev.h = "tick" /\ OfKind(pub, "desired") # {} /\ ~IsNaN(los.chi_r))
    => /\ Abs(psi) <= PI
       /\ Abs(los.alpha) <= PI
       /\ 2 * Abs(los.chi_r) <= PI
       /\ ~IsNaN(psi_ref)
       /\ Abs(psi - psi_ref) <= PI

\* C19 witness: an Active tick whose desired heading was more than pi below
\* the measured heading and was brought within pi of it by one shift
C19_WitnessShiftedUp ==
    /\ ev.h = "tick"
    /\ OfKind(pub, "desired") # {}
    /\ los.delta > 0
    /\ Gt(Sub(psi, los.chi_d), PI)
    /\ psi_ref = Add(los.chi_d, 2 * PI)
    /\ Abs(psi - psi_ref) <= PI

====
